---- MODULE Spec2Model ----
(***************************************************************************)
(* Model of the byte-stream compression toolkit: the heap-driven binary    *)
(* tree (compress/utils/binary_tree.py), the Huffman codec                 *)
(* (compress/algorithms/huffman.py) and the LZW codec                      *)
(* (compress/algorithms/lzw.py).                                           *)
(*                                                                         *)
(* Representation.  A byte string is a sequence of integers 0..255, a bit  *)
(* string (Python str of "0"/"1") is a sequence over {0,1}.  A Python int  *)
(* of unbounded size that is only converted from and to bits is kept as    *)
(* its magnitude: the bit sequence without leading zeros (zero is <<>>).   *)
(* A tree node is a record [value, frequency, left, right]; left and right *)
(* are nodes or None.  A dict is a function; bytes_occurrences, the one    *)
(* dict the code iterates over, is the sequence of its <<key, value>>      *)
(* pairs in insertion order.                                               *)
(* A Python exception is the string naming it; NoError is no exception.    *)
(***************************************************************************)
EXTENDS Integers, Sequences, FiniteSets, TLC

\* ------------------------------------------------------------------ bounds
MaxLen == 7          \* longest input file modelled
MaxLeaves == 4       \* most distinct byte values in a frequency table
MaxCount == 5        \* largest occurrence count in a frequency table
MaxFieldBits == 3    \* largest scaled-down width field (bits)
MaxWidthLen == 4     \* longest input file given to a scaled-down width field
MaxFreshLen == 4     \* longest input file of a run of several compress_file calls

Alphabet == {0, 65, 66}                 \* byte values the input files use
TreeSymbols == <<65, 66, 67, 68, 69>>   \* byte values of frequency tables
WidthAlphabet == {3, 4, 16}             \* byte values around the small width limits
FreshAlphabet == {65, 66}               \* byte values of the files of a run of several calls

NoError == "none"
None == <<>>         \* Python's None where a node or a dict is expected
NoValue == -1        \* Python's None where a byte value is expected
NoFile == <<-1>>     \* the path does not exist (no byte is negative)

\* --------------------------------------------------------- python helpers
Min2(a, b) == IF a < b THEN a ELSE b

\* s[a:b] of Python, a and b counted from 0, clamped to the string
Slice(s, a, b) == SubSeq(s, a + 1, Min2(b, Len(s)))

\* s[a:] of Python
SliceFrom(s, a) == SubSeq(s, a + 1, Len(s))

RECURSIVE Bin(_)
\* format(n, "b"): the binary digits of n, "0" for 0
Bin(n) == IF n < 2 THEN <<n>> ELSE Bin(n \div 2) \o <<n % 2>>

RECURSIVE Zeros(_)
Zeros(k) == IF k <= 0 THEN <<>> ELSE <<0>> \o Zeros(k - 1)

\* format(n, "0{w}b"): binary digits, zero-filled on the left to at least w
Format(n, w) == Zeros(w - Len(Bin(n))) \o Bin(n)

RECURSIVE IntOf(_)
\* int(s, 2) of a non-empty bit string that fits a machine integer
IntOf(s) == IF s = <<>> THEN 0 ELSE 2 * IntOf(SubSeq(s, 1, Len(s) - 1)) + s[Len(s)]

\* n.bit_length()
BitLength(n) == IF n = 0 THEN 0 ELSE Len(Bin(n))

RECURSIVE StripZeros(_)
\* the magnitude of int(s, 2): leading zero bits carry no value
StripZeros(s) == IF s # <<>> /\ s[1] = 0 THEN StripZeros(Tail(s)) ELSE s

RECURSIVE BytesOfBits(_)
BytesOfBits(s) ==
    IF s = <<>> THEN <<>> ELSE <<IntOf(SubSeq(s, 1, 8))>> \o BytesOfBits(SubSeq(s, 9, Len(s)))

\* big.to_bytes(n, 'big') for a magnitude big with bit_length <= 8 * n
ToBytes(big, n) == BytesOfBits(Zeros(8 * n - Len(big)) \o big)

\* big.to_bytes((big.bit_length() + 7) // 8, 'big')
ToMinimalBytes(big) == ToBytes(big, (Len(big) + 7) \div 8)

RECURSIVE BitsOfBytes(_)
\* "".join(format(byte, "08b") for byte in bytes_list)
BitsOfBytes(bs) == IF bs = <<>> THEN <<>> ELSE Format(bs[1], 8) \o BitsOfBytes(Tail(bs))

\* ------------------------------------------------------------------ heapq
RECURSIVE SiftDown(_, _, _, _)
\* heapq._siftdown with newitem carried: positions counted from 0
SiftDown(heap, startpos, pos, newitem) ==
    IF pos > startpos
    THEN LET parentpos == (pos - 1) \div 2
             parent == heap[parentpos + 1]
         IN IF newitem.frequency < parent.frequency
            THEN SiftDown([heap EXCEPT ![pos + 1] = parent], startpos, parentpos, newitem)
            ELSE [heap EXCEPT ![pos + 1] = newitem]
    ELSE [heap EXCEPT ![pos + 1] = newitem]

RECURSIVE SiftUpLoop(_, _, _)
\* the while loop of heapq._siftup: returns <<heap, pos>>
SiftUpLoop(heap, pos, childpos) ==
    LET endpos == Len(heap) IN
    IF childpos < endpos
    THEN LET rightpos == childpos + 1
             c == IF rightpos < endpos
                     /\ ~(heap[childpos + 1].frequency < heap[rightpos + 1].frequency)
                  THEN rightpos ELSE childpos
         IN SiftUpLoop([heap EXCEPT ![pos + 1] = heap[c + 1]], c, 2 * c + 1)
    ELSE <<heap, pos>>

\* heapq._siftup(heap, pos)
SiftUp(heap, pos) ==
    LET newitem == heap[pos + 1]
        r == SiftUpLoop(heap, pos, 2 * pos + 1)
    IN SiftDown(r[1], pos, r[2], newitem)

\* heapq.heappush(heap, item): the heap after the push
heappush(heap, item) == SiftDown(Append(heap, item), 0, Len(heap), item)

\* heapq.heappop(heap) of a non-empty heap: [item, heap]
heappop(heap) ==
    LET lastelt == heap[Len(heap)]
        rest == SubSeq(heap, 1, Len(heap) - 1)
    IN IF rest # <<>>
       THEN [item |-> rest[1], heap |-> SiftUp([rest EXCEPT ![1] = lastelt], 0)]
       ELSE [item |-> lastelt, heap |-> rest]

\* ------------------------------------------------------------ binary_tree
\* Node.is_leaf
is_leaf(node) == node.left = None /\ node.right = None

\* HuffmanNode(frequency, value)
HuffmanNode(frequency, value) ==
    [value |-> value, frequency |-> frequency, left |-> None, right |-> None]

\* Huffman.create_node(left, right)
create_node(left, right) ==
    [value |-> NoValue,
     frequency |-> IF left = None \/ right = None THEN 0
                   ELSE left.frequency + right.frequency,
     left |-> left, right |-> right]

RECURSIVE PushAll(_, _)
\* for value in values: heappush(heap, value)
PushAll(heap, values) ==
    IF values = <<>> THEN heap ELSE PushAll(heappush(heap, values[1]), Tail(values))

\* BuildBody with the two popped nodes handed to create_node in the other
\* order
BuildBody_swapped(st) ==
    LET p1 == heappop(st.heap) IN
    IF p1.heap # <<>>
    THEN LET p2 == heappop(p1.heap)
         IN [heap |-> heappush(p2.heap, create_node(p2.item, p1.item)),
             root_node |-> st.root_node,
             created |-> st.created + 1]
    ELSE [heap |-> p1.heap, root_node |-> p1.item, created |-> st.created]

\* one pass of the while loop of BinaryTree.build_tree over the record
\* [heap, root_node, created]; created counts the calls of create_node
BuildBody(st) ==
    LET p1 == heappop(st.heap) IN
    IF p1.heap # <<>>
    THEN LET p2 == heappop(p1.heap)
         IN [heap |-> heappush(p2.heap, create_node(p1.item, p2.item)),
             root_node |-> st.root_node,
             created |-> st.created + 1]
    ELSE [heap |-> p1.heap, root_node |-> p1.item, created |-> st.created]

RECURSIVE BuildLoop(_)
BuildLoop(st) == IF st.heap = <<>> THEN st ELSE BuildLoop(BuildBody(st))

\* BinaryTree.build_tree(values): the root_node it leaves (old_root when
\* values is empty)
build_tree(old_root, values) ==
    BuildLoop([heap |-> PushAll(<<>>, values), root_node |-> old_root, created |-> 0]).root_node

\* traversal_action with the leaf's value written without the zero fill
\* (format(node.value, "b"))
traversal_action_unpadded(node) ==
    IF is_leaf(node) THEN <<1>> \o Bin(node.value) ELSE <<0>>

\* Huffman.traversal_action(node): what it appends to encoded_tree
traversal_action(node) ==
    IF is_leaf(node) THEN <<1>> \o Format(node.value, 8) ELSE <<0>>

RECURSIVE PreorderLoop(_, _)
\* the while loop of BinaryTree.preorder_traversal, nodes taken from a heap
PreorderLoop(heap, encoded) ==
    IF heap = <<>> THEN encoded
    ELSE LET p == heappop(heap)
             current_node == p.item
             h1 == IF current_node.left # None
                   THEN heappush(p.heap, current_node.left) ELSE p.heap
             h2 == IF current_node.right # None
                   THEN heappush(h1, current_node.right) ELSE h1
         IN PreorderLoop(h2, encoded \o traversal_action(current_node))

\* BinaryTree.preorder_traversal started on an empty encoded_tree
preorder_traversal(root) == PreorderLoop(heappush(<<>>, root), <<>>)

\* ---------------------------------------------------------------- huffman
RECURSIVE find_bytes_occurrences(_, _)
\* Huffman.__find_bytes_occurrences after the clear(): occ starts as <<>>
find_bytes_occurrences(occ, bytes_list) ==
    IF bytes_list = <<>> THEN occ
    ELSE LET byte == bytes_list[1]
             hit == {i \in 1..Len(occ) : occ[i][1] = byte}
             occ1 == IF hit # {}
                     THEN LET i == CHOOSE i \in hit : TRUE
                          IN [occ EXCEPT ![i] = <<byte, occ[i][2] + 1>>]
                     ELSE Append(occ, <<byte, 1>>)
         IN find_bytes_occurrences(occ1, Tail(bytes_list))

\* [HuffmanNode(self.bytes_occurrences[byte], byte) for byte in self.bytes_occurrences]
LeafNodes(occ) == [i \in 1..Len(occ) |-> HuffmanNode(occ[i][2], occ[i][1])]

RECURSIVE create_huffman_code(_, _, _)
\* Huffman.__create_huffman_code(node, code): the huffman_code dict after it
create_huffman_code(table, node, code) ==
    IF is_leaf(node)
    THEN (node.value :> code) @@ table
    ELSE create_huffman_code(create_huffman_code(table, node.left, code \o <<0>>),
                             node.right, code \o <<1>>)

RECURSIVE EncodeBytes(_, _)
\* for byte in bytes_list: encoded_string += self.huffman_code[byte]
EncodeBytes(table, bytes_list) ==
    IF bytes_list = <<>> THEN <<>>
    ELSE table[bytes_list[1]] \o EncodeBytes(table, Tail(bytes_list))

\* Huffman.__compress(bytes_list): the instance fields it sets and the bytes
\* it returns
HuffmanCompress(old_code, old_root, bytes_list) ==
    LET occ == find_bytes_occurrences(<<>>, bytes_list)
        root == build_tree(old_root, LeafNodes(occ))
        table == create_huffman_code(old_code, root, <<>>)
        encoded_string == <<1>> \o EncodeBytes(table, bytes_list)
    IN [bytes_occurrences |-> occ,
        root_node |-> root,
        huffman_code |-> table,
        compressed |-> ToBytes(StripZeros(encoded_string), (Len(encoded_string) + 7) \div 8)]

\* Huffman.compress_file, lines 200-207: the serialized tree and its bytes
EncodedTree(root) == <<1>> \o SliceFrom(preorder_traversal(root), 1)

FinalEncodedTree(encoded_tree) == ToMinimalBytes(StripZeros(encoded_tree))

\* the empty node both build_tree_from functions start a position with
NewNode(value) == [create_node(None, None) EXCEPT !.value = value]

RECURSIVE BuildTreeFrom(_, _, _)
\* Huffman.__build_tree_from(binary_string, current_node, current_index):
\* [node, index, err], node being current_node as the call leaves it
BuildTreeFrom(bs, current_node, current_index) ==
    LET n0 == [current_node EXCEPT !.left = create_node(None, None),
                                   !.right = create_node(None, None)]
        \* one child: [child, index, err]
        Child(child, idx) ==
            IF idx >= Len(bs) THEN [node |-> child, index |-> idx, err |-> "IndexError"]
            ELSE IF bs[idx + 1] = 1
            THEN IF Slice(bs, idx + 1, idx + 1 + 8) = <<>>
                 THEN [node |-> child, index |-> idx, err |-> "ValueError"]
                 ELSE [node |-> [child EXCEPT !.value = IntOf(Slice(bs, idx + 1, idx + 1 + 8))],
                       index |-> idx + 9, err |-> NoError]
            ELSE BuildTreeFrom(bs, [child EXCEPT !.value = 0], idx + 1)
        l == Child(n0.left, current_index)
        n1 == [n0 EXCEPT !.left = l.node]
    IN IF l.err # NoError THEN [node |-> n1, index |-> l.index, err |-> l.err]
       ELSE LET r == Child(n0.right, l.index)
            IN [node |-> [n1 EXCEPT !.right = r.node], index |-> r.index, err |-> r.err]

\* Huffman.build_tree_from(binary_string)
build_tree_from(binary_string) == BuildTreeFrom(binary_string, NewNode(0), 0)

RECURSIVE DecodeLoop(_, _, _, _)
\* the for loop of Huffman.__decompress: [decompressed, err]
DecodeLoop(root, current_node, bits, decompressed) ==
    IF bits = <<>> THEN [decompressed |-> decompressed, err |-> NoError]
    ELSE IF current_node = None THEN [decompressed |-> decompressed, err |-> "AttributeError"]
    ELSE LET leaf == is_leaf(current_node)
             out == IF leaf THEN Append(decompressed, current_node.value) ELSE decompressed
             from == IF leaf THEN root ELSE current_node
             next == IF bits[1] = 0 THEN from.left ELSE from.right
         IN DecodeLoop(root, next, Tail(bits), out)

\* Huffman.__decompress(compressed_data_bits)
HuffmanDecompress(root, compressed_data_bits) ==
    DecodeLoop(root, root, compressed_data_bits, <<>>)

RECURSIVE PaddingIndex(_, _)
\* while binary_string[padding_index] == "0": padding_index += 1
\* the index of the first 1, or -1 when the loop runs off the string
PaddingIndex(bs, padding_index) ==
    IF padding_index >= Len(bs) THEN -1
    ELSE IF bs[padding_index + 1] = 0 THEN PaddingIndex(bs, padding_index + 1)
    ELSE padding_index

\* -------------------------------------------------------------------- lzw
\* LZW.__build_bytes_dictionary(decompression)
build_bytes_dictionary(decompression) ==
    IF decompression
    THEN [byte \in 0..255 |-> <<byte>>]
    ELSE [key \in {<<byte>> : byte \in 0..255} |-> key[1]]

\* len(dict)
DictLen(dict) == Cardinality(DOMAIN dict)

\* dict[key] = value
DictSet(dict, key, value) == (key :> value) @@ dict

\* CompressBody with the new pattern given the code len(dict) + 1
CompressBody_skipsCode(st, byte) ==
    LET byte_as_array == <<byte>>
        current == st.pattern \o byte_as_array
    IN IF current \in DOMAIN st.translation_dict
       THEN [st EXCEPT !.pattern = current]
       ELSE LET d1 == DictSet(st.translation_dict, current, DictLen(st.translation_dict) + 1)
            IN [translation_dict |-> d1,
                compressed |-> Append(st.compressed, d1[st.pattern]),
                pattern |-> byte_as_array,
                biggest_integer |-> IF st.biggest_integer < d1[st.pattern]
                                    THEN d1[st.pattern] ELSE st.biggest_integer]

\* one pass of the for loop of LZW.__compress over the record
\* [translation_dict, compressed, pattern, biggest_integer]
CompressBody(st, byte) ==
    LET byte_as_array == <<byte>>
        current == st.pattern \o byte_as_array
    IN IF current \in DOMAIN st.translation_dict
       THEN [st EXCEPT !.pattern = current]
       ELSE LET d1 == DictSet(st.translation_dict, current, DictLen(st.translation_dict))
            IN [translation_dict |-> d1,
                compressed |-> Append(st.compressed, d1[st.pattern]),
                pattern |-> byte_as_array,
                biggest_integer |-> IF st.biggest_integer < d1[st.pattern]
                                    THEN d1[st.pattern] ELSE st.biggest_integer]

RECURSIVE CompressLoop(_, _)
CompressLoop(st, bytes_list) ==
    IF bytes_list = <<>> THEN st
    ELSE CompressLoop(CompressBody(st, bytes_list[1]), Tail(bytes_list))

\* biggest_integer > 2 ** (2 ** max_size_integer_size), formed without the
\* power itself (2 ** 32 for the 5-bit field): for n >= 1, n > 2 ** k exactly
\* when (n - 1).bit_length() > k
WidthOverflow(biggest_integer, field_bits) ==
    biggest_integer >= 1 /\ BitLength(biggest_integer - 1) > 2 ^ field_bits

\* LZW.__compress(bytes_list) of a non-empty bytes_list:
\* [translation_dict, compressed, biggest_integer, integers_size_bits, err];
\* integers_size_bits keeps old_size when the ValueError is raised
LZWCompress(bytes_list, field_bits, old_size) ==
    LET st == CompressLoop([translation_dict |-> build_bytes_dictionary(FALSE),
                            compressed |-> <<>>,
                            pattern |-> <<>>,
                            biggest_integer |-> 0], bytes_list)
        last == st.translation_dict[st.pattern]
        biggest == IF st.biggest_integer < last THEN last ELSE st.biggest_integer
        over == WidthOverflow(biggest, field_bits)
    IN [translation_dict |-> st.translation_dict,
        compressed |-> Append(st.compressed, last),
        biggest_integer |-> biggest,
        integers_size_bits |-> IF over THEN old_size ELSE BitLength(biggest),
        err |-> IF over THEN "ValueError" ELSE NoError]

RECURSIVE PackCodes(_, _)
\* ''.join([format(byte, bin_format) for byte in compressed])
PackCodes(compressed, size_bits) ==
    IF compressed = <<>> THEN <<>>
    ELSE Format(compressed[1], size_bits) \o PackCodes(Tail(compressed), size_bits)

\* LZW.compress_file, lines 95-109: the bytes to store
ToStoreInFile(compressed, size_bits, field_bits) ==
    ToMinimalBytes(StripZeros(<<1>> \o Format(size_bits, field_bits)
                                     \o PackCodes(compressed, size_bits)))

\* one pass of the for loop of LZW.__decompress over the record
\* [translation_dict, previous_code, decompressed, first_byte, err]
DecompressBody(st, new_code) ==
    LET d == st.translation_dict
        known == new_code \in DOMAIN d
    IN IF ~known /\ st.previous_code \notin DOMAIN d THEN [st EXCEPT !.err = "KeyError"]
       ELSE IF ~known /\ st.first_byte = None THEN [st EXCEPT !.err = "TypeError"]
       ELSE LET translation == IF known THEN d[new_code]
                               ELSE st.first_byte \o d[st.previous_code]
                first_byte == <<translation[1]>>
            IN IF st.previous_code \notin DOMAIN d
               THEN [st EXCEPT !.decompressed = @ \o translation,
                               !.first_byte = first_byte,
                               !.err = "KeyError"]
               ELSE [translation_dict |-> DictSet(d, DictLen(d), d[st.previous_code] \o first_byte),
                     previous_code |-> new_code,
                     decompressed |-> st.decompressed \o translation,
                     first_byte |-> first_byte,
                     err |-> NoError]

RECURSIVE DecompressLoop(_, _)
DecompressLoop(st, codes) ==
    IF codes = <<>> \/ st.err # NoError THEN st
    ELSE DecompressLoop(DecompressBody(st, codes[1]), Tail(codes))

\* LZW.__decompress, lines 131-136: the state the for loop starts from
DecompressStart(compressed_bytes_list) ==
    LET d == build_bytes_dictionary(TRUE) IN
    IF compressed_bytes_list = <<>>
    THEN [translation_dict |-> d, previous_code |-> -1, decompressed |-> <<>>,
          first_byte |-> None, err |-> "IndexError"]
    ELSE IF compressed_bytes_list[1] \notin DOMAIN d
    THEN [translation_dict |-> d, previous_code |-> compressed_bytes_list[1],
          decompressed |-> <<>>, first_byte |-> None, err |-> "KeyError"]
    ELSE [translation_dict |-> d, previous_code |-> compressed_bytes_list[1],
          decompressed |-> d[compressed_bytes_list[1]], first_byte |-> None, err |-> NoError]

\* LZW.__decompress(compressed_bytes_list)
LZWDecompress(compressed_bytes_list) ==
    DecompressLoop(DecompressStart(compressed_bytes_list), Tail(compressed_bytes_list))

RECURSIVE SliceCodes(_, _, _)
\* for i in range(start, len(bits), size_bits): int(bits[i:i + size_bits], 2)
SliceCodes(bits, i, size_bits) ==
    IF i >= Len(bits) THEN <<>>
    ELSE <<IntOf(Slice(bits, i, i + size_bits))>> \o SliceCodes(bits, i + size_bits, size_bits)

\* ------------------------------------------------------------------ state
VARIABLES
    algo,                  \* compress.py: the codec the run constructed
    plain,                 \* the file given to compress_file
    tor,                   \* the artifact file, NoFile while the path is absent
    extracted,             \* the file decompress_file writes
    err,                   \* the exception the last call raised, or NoError
    last,                  \* the last call: "new", "compress_file", "decompress_file"
    bytes_occurrences,     \* Huffman.bytes_occurrences
    huffman_code,          \* Huffman.huffman_code
    root_node,             \* BinaryTree.root_node
    encoded_tree,          \* Huffman.encoded_tree
    translation_dict,      \* LZW.translation_dict
    integers_size_bits,    \* LZW.integers_size_bits
    max_size_integer_size, \* LZW.max_size_integer_size
    values,                \* build_tree: the nodes it was given
    heap,                  \* build_tree: its local heap
    created                \* build_tree: calls of create_node so far

files == <<plain, tor, extracted>>
huffman == <<bytes_occurrences, huffman_code, root_node, encoded_tree>>
lzw == <<translation_dict, integers_size_bits, max_size_integer_size>>
build == <<values, heap, created>>
vars == <<algo, files, err, last, huffman, lzw, build>>

EmptyInput == "IOError: File is empty !"
NoGain == "Exception: Aborted. No gain"
CantEncode == "ValueError: Can't encode such value"

Inputs == UNION {[1..n -> Alphabet] : n \in 0..MaxLen}

\* Huffman.__init__ and LZW.__init__
NewCodecs ==
    /\ bytes_occurrences = <<>>
    /\ huffman_code = <<>>
    /\ root_node = None
    /\ encoded_tree = None
    /\ translation_dict = None
    /\ integers_size_bits = 0

Init ==
    /\ algo \in {"huffman", "lzw"}
    /\ plain \in Inputs
    /\ tor = NoFile
    /\ extracted = NoFile
    /\ err = NoError
    /\ last = "new"
    /\ NewCodecs
    /\ max_size_integer_size = 5
    /\ values = <<>> /\ heap = <<>> /\ created = 0

\* The file a decompress_file call is given: the artifact once it exists, or
\* the plain file when that is a zero-length file (an artifact no codec
\* wrote is outside the model)
DecompressInputs == {f \in {tor, plain} : f # NoFile /\ (f = plain => plain = <<>>)}

\* the No-Gain test with < in place of <=
NoGainRaised_strict(bytes_list, total_file_size) == Len(bytes_list) < total_file_size

\* if len(bytes_list) <= total_file_size: raise Exception("Aborted. No gain...")
NoGainRaised(bytes_list, total_file_size) == Len(bytes_list) <= total_file_size

\* Huffman.compress_file on an input file that holds bytes_list
HuffmanCompressFileOn(bytes_list) ==
    /\ algo = "huffman"
    /\ last' = "compress_file"
    /\ UNCHANGED <<algo, extracted, lzw, build>>
    /\ IF bytes_list = <<>>
       THEN /\ err' = EmptyInput
            /\ UNCHANGED <<tor, huffman>>
       ELSE LET c == HuffmanCompress(huffman_code, root_node, bytes_list)
                tree == EncodedTree(c.root_node)
                final_encoded_tree == FinalEncodedTree(tree)
                total_file_size == Len(final_encoded_tree) + Len(c.compressed)
            IN /\ bytes_occurrences' = c.bytes_occurrences
               /\ huffman_code' = c.huffman_code
               /\ root_node' = c.root_node
               /\ encoded_tree' = tree
               /\ IF NoGainRaised(bytes_list, total_file_size)
                  THEN err' = NoGain /\ UNCHANGED tor
                  ELSE err' = NoError /\ tor' = final_encoded_tree \o c.compressed

\* Huffman.compress_file(plain, tor)
HuffmanCompressFile == HuffmanCompressFileOn(plain) /\ UNCHANGED plain

\* the body of Huffman.decompress_file on a non-empty file: [root_node, decompressed, err],
\* root_node being None while build_tree_from has not been called
HuffmanDecompressFileOf(bytes_list) ==
    LET bits0 == BitsOfBytes(bytes_list)
        p0 == PaddingIndex(bits0, 0)
        bits1 == SliceFrom(bits0, p0 + 1)
        t == build_tree_from(bits1)
        bits2 == SliceFrom(bits1, t.index)
        p2 == PaddingIndex(bits2, 0)
        d == HuffmanDecompress(t.node, SliceFrom(bits2, p2 + 1))
    IN IF p0 = -1 THEN [root_node |-> None, decompressed |-> <<>>, err |-> "IndexError"]
       ELSE IF t.err # NoError THEN [root_node |-> t.node, decompressed |-> <<>>, err |-> t.err]
       ELSE IF p2 = -1 THEN [root_node |-> t.node, decompressed |-> <<>>, err |-> "IndexError"]
       ELSE [root_node |-> t.node, decompressed |-> d.decompressed, err |-> d.err]

\* Huffman.decompress_file(bytes_list's file, extracted)
HuffmanDecompressFile(bytes_list) ==
    /\ algo = "huffman"
    /\ last' = "decompress_file"
    /\ UNCHANGED <<algo, plain, tor, lzw, build, bytes_occurrences, huffman_code, encoded_tree>>
    /\ IF bytes_list = <<>>
       THEN err' = EmptyInput /\ UNCHANGED <<extracted, root_node>>
       ELSE LET r == HuffmanDecompressFileOf(bytes_list)
            IN /\ err' = r.err
               /\ root_node' = IF r.root_node = None THEN root_node ELSE r.root_node
               /\ extracted' = IF r.err = NoError THEN r.decompressed ELSE extracted

\* LZW.compress_file(plain, tor)
LZWCompressFile ==
    /\ algo = "lzw"
    /\ last' = "compress_file"
    /\ UNCHANGED <<algo, plain, extracted, huffman, build, max_size_integer_size>>
    /\ IF plain = <<>>
       THEN /\ err' = EmptyInput
            /\ UNCHANGED <<tor, translation_dict, integers_size_bits>>
       ELSE LET c == LZWCompress(plain, max_size_integer_size, integers_size_bits)
                to_store_in_file ==
                    ToStoreInFile(c.compressed, c.integers_size_bits, max_size_integer_size)
                total_file_size == Len(to_store_in_file)
            IN /\ translation_dict' = c.translation_dict
               /\ integers_size_bits' = c.integers_size_bits
               /\ IF c.err # NoError THEN err' = CantEncode /\ UNCHANGED tor
                  ELSE IF NoGainRaised(plain, total_file_size)
                  THEN err' = NoGain /\ UNCHANGED tor
                  ELSE err' = NoError /\ tor' = to_store_in_file

\* the body of LZW.decompress_file on a non-empty file:
\* [integers_size_bits, translation_dict, decompressed, err], translation_dict
\* being None while __decompress has not been called
LZWDecompressFileOf(bytes_list, field_bits) ==
    LET big_int_compressed == StripZeros(BitsOfBytes(bytes_list))
        bits == IF big_int_compressed = <<>> THEN <<0>> ELSE big_int_compressed
        size_field == Slice(bits, 1, field_bits + 1)
        size_bits == IntOf(size_field)
        d == LZWDecompress(SliceCodes(bits, field_bits + 1, size_bits))
    IN IF size_field = <<>>
       THEN [integers_size_bits |-> -1, translation_dict |-> None,
             decompressed |-> <<>>, err |-> "ValueError: int()"]
       ELSE IF size_bits = 0
       THEN [integers_size_bits |-> size_bits, translation_dict |-> None,
             decompressed |-> <<>>, err |-> "ValueError: range() arg 3 must not be zero"]
       ELSE [integers_size_bits |-> size_bits, translation_dict |-> d.translation_dict,
             decompressed |-> d.decompressed, err |-> d.err]

\* LZWDecompressFile without the test for an empty file
LZWDecompressFile_unchecked(bytes_list) ==
    /\ algo = "lzw"
    /\ last' = "decompress_file"
    /\ UNCHANGED <<algo, plain, tor, huffman, build, max_size_integer_size>>
    /\ LET r == LZWDecompressFileOf(bytes_list, max_size_integer_size)
       IN /\ err' = r.err
          /\ integers_size_bits' =
                 IF r.integers_size_bits = -1 THEN integers_size_bits
                 ELSE r.integers_size_bits
          /\ translation_dict' =
                 IF r.translation_dict = None THEN translation_dict
                 ELSE r.translation_dict
          /\ extracted' = IF r.err = NoError THEN r.decompressed ELSE extracted

\* LZW.decompress_file(bytes_list's file, extracted)
LZWDecompressFile(bytes_list) ==
    /\ algo = "lzw"
    /\ last' = "decompress_file"
    /\ UNCHANGED <<algo, plain, tor, huffman, build, max_size_integer_size>>
    /\ IF bytes_list = <<>>
       THEN err' = EmptyInput /\ UNCHANGED <<extracted, translation_dict, integers_size_bits>>
       ELSE LET r == LZWDecompressFileOf(bytes_list, max_size_integer_size)
            IN /\ err' = r.err
               /\ integers_size_bits' =
                      IF r.integers_size_bits = -1 THEN integers_size_bits
                      ELSE r.integers_size_bits
               /\ translation_dict' =
                      IF r.translation_dict = None THEN translation_dict
                      ELSE r.translation_dict
               /\ extracted' = IF r.err = NoError THEN r.decompressed ELSE extracted

Next ==
    \/ HuffmanCompressFile
    \/ \E bytes_list \in DecompressInputs : HuffmanDecompressFile(bytes_list)
    \/ LZWCompressFile
    \/ \E bytes_list \in DecompressInputs : LZWDecompressFile(bytes_list)

Spec == Init /\ [][Next]_vars

\* ------------------------------------------- LZW with a smaller width field
WidthInputs == UNION {[1..n -> WidthAlphabet] : n \in 0..MaxWidthLen}

\* LZW.__init__ followed by a change of max_size_integer_size, the attribute
\* the ValueError of __compress tells the user to change
InitWidth ==
    /\ algo = "lzw"
    /\ plain \in WidthInputs
    /\ tor = NoFile
    /\ extracted = NoFile
    /\ err = NoError
    /\ last = "new"
    /\ NewCodecs
    /\ max_size_integer_size \in 1..MaxFieldBits
    /\ values = <<>> /\ heap = <<>> /\ created = 0

NextWidth ==
    \/ LZWCompressFile
    \/ \E bytes_list \in DecompressInputs : LZWDecompressFile(bytes_list)

SpecWidth == InitWidth /\ [][NextWidth]_vars

\* ------------------------------------- several files through one Huffman
\* the files handed to one Huffman instance, one compress_file call each
FreshInputs == UNION {[1..n -> FreshAlphabet] : n \in 0..MaxFreshLen}

InitFresh ==
    /\ algo = "huffman"
    /\ plain \in FreshInputs
    /\ tor = NoFile
    /\ extracted = NoFile
    /\ err = NoError
    /\ last = "new"
    /\ NewCodecs
    /\ max_size_integer_size = 5
    /\ values = <<>> /\ heap = <<>> /\ created = 0

\* Huffman.compress_file(input_filename, tor) with input_filename naming a
\* file that holds bytes_list; plain is the file of the most recent call
CompressNextFile(bytes_list) ==
    /\ plain' = bytes_list
    /\ HuffmanCompressFileOn(bytes_list)

NextFresh == \E bytes_list \in FreshInputs : CompressNextFile(bytes_list)

SpecFresh == InitFresh /\ [][NextFresh]_vars

\* ------------------------------------------------- the tree, step by step
\* bytes_occurrences of some input: n distinct byte values with counts >= 1,
\* in the order the input first shows them
FrequencyTables ==
    UNION {{[i \in 1..n |-> <<TreeSymbols[i], count[i]>>] : count \in [1..n -> 1..MaxCount]}
           : n \in 1..MaxLeaves}

InitTree ==
    /\ algo = "huffman"
    /\ plain = NoFile /\ tor = NoFile /\ extracted = NoFile
    /\ err = NoError
    /\ last = "new"
    /\ NewCodecs
    /\ max_size_integer_size = 5
    /\ \E occ \in FrequencyTables : values = LeafNodes(occ)
    /\ heap = <<>>
    /\ created = 0

\* BinaryTree.build_tree, lines 52-55: the heap is filled
BuildStart ==
    /\ last = "new"
    /\ heap' = PushAll(<<>>, values)
    /\ last' = "build_tree"
    /\ UNCHANGED <<algo, files, err, huffman, lzw, values, created>>

\* BinaryTree.build_tree, lines 57-66: one pass of the while loop
BuildStep ==
    /\ last = "build_tree"
    /\ heap # <<>>
    /\ LET st == BuildBody([heap |-> heap, root_node |-> root_node, created |-> created])
       IN /\ heap' = st.heap
          /\ root_node' = st.root_node
          /\ created' = st.created
    /\ UNCHANGED <<algo, files, err, last, lzw, values,
                   bytes_occurrences, huffman_code, encoded_tree>>

\* Huffman.__compress, line 165, on the tree just built
CreateCode ==
    /\ last = "build_tree"
    /\ heap = <<>>
    /\ huffman_code' = create_huffman_code(huffman_code, root_node, <<>>)
    /\ last' = "create_huffman_code"
    /\ UNCHANGED <<algo, files, err, lzw, build, bytes_occurrences, root_node, encoded_tree>>

\* Huffman.compress_file, lines 200-204, on the tree just built
SerializeTree ==
    /\ last = "create_huffman_code"
    /\ encoded_tree' = EncodedTree(root_node)
    /\ last' = "preorder_traversal"
    /\ UNCHANGED <<algo, files, err, lzw, build, bytes_occurrences, huffman_code, root_node>>

\* Huffman.decompress_file, line 269, on the bits after the guard bit
RebuildTree ==
    /\ last = "preorder_traversal"
    /\ LET t == build_tree_from(SliceFrom(encoded_tree, 1))
       IN root_node' = t.node /\ err' = t.err
    /\ last' = "build_tree_from"
    /\ UNCHANGED <<algo, files, lzw, build, bytes_occurrences, huffman_code, encoded_tree>>

NextTree ==
    \/ BuildStart
    \/ BuildStep
    \/ CreateCode
    \/ SerializeTree
    \/ RebuildTree

SpecTree == InitTree /\ [][NextTree]_vars

\* ------------------------------------------------------------ tree facts
RECURSIVE LeavesOf(_)
\* the leaves below a node, left to right
LeavesOf(node) ==
    IF node = None THEN <<>>
    ELSE IF is_leaf(node) THEN <<node>>
    ELSE LeavesOf(node.left) \o LeavesOf(node.right)

RECURSIVE NodesOf(_)
\* every node of a tree
NodesOf(node) ==
    IF node = None THEN {} ELSE {node} \union NodesOf(node.left) \union NodesOf(node.right)

RECURSIVE DepthsOf(_, _)
\* the pairs <<byte value, depth>> of the leaves below a node at depth d
DepthsOf(node, d) ==
    IF node = None THEN {}
    ELSE IF is_leaf(node) THEN {<<node.value, d>>}
    ELSE DepthsOf(node.left, d + 1) \union DepthsOf(node.right, d + 1)

RECURSIVE SumOf(_)
SumOf(nodes) == IF nodes = <<>> THEN 0 ELSE nodes[1].frequency + SumOf(Tail(nodes))

Range(seq) == {seq[i] : i \in 1..Len(seq)}

\* the lowest weight in a queue
LowestIn(queue) ==
    CHOOSE f \in {n.frequency : n \in Range(queue)} : \A n \in Range(queue) : f <= n.frequency

\* C10, the tree as build_tree leaves it
BuiltTreeShape ==
    (last = "build_tree" /\ heap = <<>>) =>
        /\ created = Len(values) - 1
        /\ Len(LeavesOf(root_node)) = Len(values)
        /\ Range(LeavesOf(root_node)) = Range(values)
        /\ \A n \in NodesOf(root_node) : (n.left = None) <=> (n.right = None)
        /\ \A n \in NodesOf(root_node) :
               ~is_leaf(n) => n.frequency = n.left.frequency + n.right.frequency
        /\ root_node.frequency = SumOf(values)
        /\ Len(values) = 1 => root_node = values[1]

\* C10, one merge: the pass takes the queue's two lowest-weight nodes and
\* puts back one node over them
MergeStep ==
    (last = "build_tree" /\ Len(heap) >= 2 /\ heap' # heap) =>
        \E i \in 1..Len(heap') :
            LET node == heap'[i] IN
            /\ node \notin Range(heap)
            /\ node.left \in Range(heap) /\ node.right \in Range(heap)
            /\ node.left # node.right
            /\ node.left.frequency = LowestIn(heap)
            /\ \A n \in Range(heap) \ {node.left} : node.right.frequency <= n.frequency
            /\ node.left.frequency <= node.right.frequency
            /\ node.frequency = node.left.frequency + node.right.frequency
            /\ Range(heap') = (Range(heap) \ {node.left, node.right}) \union {node}
            /\ Len(heap') = Len(heap) - 1
            /\ created' = created + 1

\* C10: for every non-empty collection of n leaves with weights >= 1,
\* build_tree ends after exactly n - 1 merges, each merge putting the two
\* lowest-weight nodes then in the queue (the lower one on the left) under a
\* new node weighing their sum; the root holds every supplied leaf exactly
\* once, every node that is not a leaf has two children, the root weighs the
\* sum of the leaf weights, and a single leaf becomes the root itself with
\* no node created.
C10_PriorityTreeBuild == [](created <= Len(values) - 1 /\ BuiltTreeShape) /\ [][MergeStep]_vars

\* a tree of the most leaves has been built and its last merge counted
C10_Witness ==
    /\ last = "build_tree" /\ heap = <<>>
    /\ Len(values) = MaxLeaves
    /\ created = MaxLeaves - 1
    /\ ~is_leaf(root_node)

\* C5: for every frequency table with at least two distinct byte values, the
\* tree rebuilt by build_tree_from from the heap-driven serialization (guard
\* bit in place of the root's marker) has every byte value as a leaf at the
\* depth that equals the length of the code the original tree gave it.
C5_SerializationIsomorphism ==
    (last = "build_tree_from" /\ Len(values) >= 2) =>
        /\ err = NoError
        /\ DepthsOf(root_node, 0) =
               {<<values[i].value, Len(huffman_code[values[i].value])>> : i \in 1..Len(values)}

\* a rebuilt tree whose leaves lie at different depths
C5_Witness ==
    /\ last = "build_tree_from" /\ err = NoError
    /\ Len(values) = MaxLeaves
    /\ \E a, b \in DepthsOf(root_node, 0) : a[2] + 2 <= b[2]

\* ------------------------------------------------------------ round trips
\* a decompress_file call has just read an artifact that compress_file
\* wrote for the plain file
Decompressed(codec) == algo = codec /\ last = "decompress_file" /\ tor # NoFile

RoundTrip == err = NoError /\ extracted = plain

\* C1: for every input with at least two distinct byte values that
\* Huffman.compress_file wrote an artifact for, Huffman.decompress_file on
\* that artifact writes exactly the input, its last byte included.
C1_HuffmanRoundTrip ==
    (Decompressed("huffman") /\ Cardinality(Range(plain)) >= 2) => RoundTrip

\* C2: for every input that LZW.compress_file wrote an artifact for,
\* LZW.decompress_file on that artifact ends without error and writes
\* exactly the input.
C2_LZWRoundTrip == Decompressed("lzw") => RoundTrip

\* C3: for every input of n >= 1 copies of one byte value that
\* Huffman.compress_file wrote an artifact for, Huffman.decompress_file on
\* that artifact ends without error and writes exactly the n copies.
C3_SingleSymbolRoundTrip ==
    (Decompressed("huffman") /\ Cardinality(Range(plain)) = 1) => RoundTrip

\* ---------------------------------------------------------------- no gain
\* (n + 7) // 8
BytesFor(bit_count) == (bit_count + 7) \div 8

RECURSIVE CodeBits(_, _)
\* the bits the code table spends on a byte string
CodeBits(table, bytes_list) ==
    IF bytes_list = <<>> THEN 0
    ELSE Len(table[bytes_list[1]]) + CodeBits(table, Tail(bytes_list))

\* the byte length of the artifact compress_file has just constructed, from
\* what the call left in the codec: Huffman's serialized tree and guarded
\* symbol stream; LZW's guard bit, width field and one codeword (of at least
\* one bit) per emitted code, one more than the dictionary gained
ArtifactSize ==
    IF algo = "huffman"
    THEN BytesFor(Len(encoded_tree)) + BytesFor(1 + CodeBits(huffman_code, plain))
    ELSE BytesFor(1 + Len(Format(integers_size_bits, max_size_integer_size))
                  + (DictLen(translation_dict) - 256 + 1)
                    * (IF integers_size_bits = 0 THEN 1 ELSE integers_size_bits))

\* the artifact itself
Artifact ==
    IF algo = "huffman"
    THEN FinalEncodedTree(encoded_tree)
         \o HuffmanCompress(huffman_code, root_node, plain).compressed
    ELSE ToStoreInFile(LZWCompress(plain, max_size_integer_size, integers_size_bits).compressed,
                       integers_size_bits, max_size_integer_size)

\* C4: compress_file of either codec raises the No-Gain error exactly when
\* the byte length of the fully constructed artifact is greater than or
\* equal to the input's byte length, and then the output file is not
\* written; when the artifact is strictly smaller the output file holds
\* exactly that artifact.
C4_NoGainRule ==
    (last = "compress_file" /\ plain # <<>>) =>
        /\ err = NoGain <=> ArtifactSize >= Len(plain)
        /\ err = NoGain => tor = NoFile
        /\ ArtifactSize < Len(plain) =>
               err = NoError /\ tor = Artifact /\ Len(tor) = ArtifactSize

\* the boundary: an artifact exactly as long as its input was refused
C4_Witness ==
    /\ last = "compress_file" /\ plain # <<>>
    /\ err = NoGain /\ ArtifactSize = Len(plain) /\ tor = NoFile

\* ------------------------------------------------------------ empty input
\* C9: compress_file and decompress_file of both codecs, given a zero-length
\* file, raise the Empty-Input error before any encoding or decoding step:
\* the codec is as constructed and no output file is written.
C9_EmptyInput ==
    (plain = <<>> /\ last # "new") =>
        /\ err = EmptyInput
        /\ tor = NoFile /\ extracted = NoFile
        /\ NewCodecs

\* a decompress_file call on a zero-length file has raised Empty-Input after
\* compress_file had
C9_Witness ==
    /\ plain = <<>> /\ last = "decompress_file"
    /\ err = EmptyInput /\ extracted = NoFile

\* --------------------------------------------------------- LZW dictionary
\* the codes __compress emits for the plain file
EmittedCodes == LZWCompress(plain, max_size_integer_size, integers_size_bits).compressed

\* the encoder's dictionary once it has read the first k bytes
EncoderDictAfter(k) ==
    CompressLoop([translation_dict |-> build_bytes_dictionary(FALSE),
                  compressed |-> <<>>,
                  pattern |-> <<>>,
                  biggest_integer |-> 0], SubSeq(plain, 1, k)).translation_dict

\* the decoder once its loop has taken the first j codes of the stream
DecoderAfter(codes, j) == DecompressLoop(DecompressStart(codes), SubSeq(codes, 2, j))

\* the byte sequence the encoder's dictionary maps to a code
PatternOf(dict, code) == CHOOSE pattern \in DOMAIN dict : dict[pattern] = code

RECURSIVE Phrases(_, _)
\* the byte sequences the encoder's dictionary gave the codes, joined
Phrases(dict, codes) ==
    IF codes = <<>> THEN <<>> ELSE PatternOf(dict, codes[1]) \o Phrases(dict, Tail(codes))

ArtifactBits == StripZeros(BitsOfBytes(tor))

\* the width the artifact's field holds
StoredWidth == IntOf(Slice(ArtifactBits, 1, max_size_integer_size + 1))

\* the largest code __compress emitted for the plain file
LargestCode == LZWCompress(plain, max_size_integer_size, integers_size_bits).biggest_integer

\* C7: for every input that LZW.compress_file writes an artifact for, the
\* width in the 5-bit field equals the bit-length of the largest emitted
\* code, at least 1, and every emitted code is packed in exactly that many
\* bits.
C7_CodewordWidth ==
    (algo = "lzw" /\ last = "compress_file" /\ err = NoError) =>
        LET width == IF BitLength(LargestCode) = 0 THEN 1 ELSE BitLength(LargestCode)
        IN /\ StoredWidth = width
           /\ Len(ArtifactBits) = 1 + max_size_integer_size + width * Len(EmittedCodes)
           /\ SliceCodes(ArtifactBits, max_size_integer_size + 1, width) = EmittedCodes

\* C8: LZW compress fails with the Width-Overflow error for every largest
\* emitted code whose bit-length exceeds 2^max_size_integer_size and for no
\* other; so whenever it does not fail the width it keeps is at most
\* 2^max_size_integer_size.
C8_WidthOverflow ==
    (algo = "lzw" /\ last = "compress_file" /\ plain # <<>>) =>
        /\ err = CantEncode <=> BitLength(LargestCode) > 2 ^ max_size_integer_size
        /\ err # CantEncode => integers_size_bits <= 2 ^ max_size_integer_size

\* ------------------------------------------------------- LZW unknown code
\* the codes decompress_file has just cut out of the artifact, at the width
\* it read from the artifact's field
ArtifactCodes == SliceCodes(ArtifactBits, max_size_integer_size + 1, integers_size_bits)

\* the j-th code of the stream is not in the dictionary the decoder holds
\* when it comes to it
UnknownAt(codes, j) ==
    /\ DecoderAfter(codes, j - 1).err = NoError
    /\ codes[j] \notin DOMAIN DecoderAfter(codes, j - 1).translation_dict

\* C11: whenever a code other than the first of the stream that
\* decompress_file decodes is not in the decoder's dictionary, __decompress
\* goes on without error and the bytes it emits for that code are the
\* previous code's translation followed by the first byte of that
\* translation, also when the missing code is the second of the stream.
C11_UnknownCodeRule ==
    (Decompressed("lzw") /\ integers_size_bits > 0) =>
        \A j \in 2..Len(ArtifactCodes) :
            UnknownAt(ArtifactCodes, j) =>
                LET before == DecoderAfter(ArtifactCodes, j - 1)
                    after == DecoderAfter(ArtifactCodes, j)
                    previous == before.translation_dict[before.previous_code]
                IN /\ after.err = NoError
                   /\ after.decompressed = before.decompressed \o previous \o <<previous[1]>>

\* --------------------------------------------------- Huffman decode walk
\* the symbol stream of the first k bytes of the plain file: k codewords
SymbolStream(k) == EncodeBytes(huffman_code, SubSeq(plain, 1, k))

\* C12: for every artifact of an input with at least two distinct byte
\* values, __decompress walking the rebuilt tree over a stream of k
\* codewords emits the byte of every leaf it reaches, the leaf reached by
\* the last bit included: the output holds exactly the k bytes.
C12_DecodeWalk ==
    (Decompressed("huffman") /\ Cardinality(Range(plain)) >= 2) =>
        \A k \in 1..Len(plain) :
            LET walk == HuffmanDecompress(root_node, SymbolStream(k))
            IN /\ walk.err = NoError
               /\ Len(walk.decompressed) = k
               /\ walk.decompressed = SubSeq(plain, 1, k)

\* ------------------------------------------------------ code table freshness
\* C13: after any sequence of Huffman compress_file calls on one instance,
\* the code table holds exactly one entry per distinct byte value of the
\* most recent input, none for a node that is not a leaf and none carried
\* over from an earlier call: it is the table the tree of the most recent
\* input gives an empty table.
C13_CodeTableFreshness ==
    (algo = "huffman" /\ last = "compress_file" /\ plain # <<>>) =>
        /\ DOMAIN huffman_code = Range(plain)
        /\ NoValue \notin DOMAIN huffman_code
        /\ huffman_code = create_huffman_code(<<>>, root_node, <<>>)

====
